---- MODULE Spec2Model ----
(***************************************************************************)
(* Model of slopealg (src/slopepkgalg.py): the orchestration of five       *)
(* external geoprocessing operations (mosaic, resample, slope, classify,   *)
(* vectorize) with a cancellation poll and a progress message after each   *)
(* stage position.  The external operations are black boxes: a call either *)
(* returns (writing its artifact to the destination it was given and       *)
(* reporting that destination), raises, or never returns (stuttering).     *)
(* The cancellation flag of the feedback object is set asynchronously by   *)
(* the host (Cancel), at any control position of slopealg.                 *)
(***************************************************************************)
EXTENDS Integers, Sequences, FiniteSets, TLC

\* ---------------------------------------------------------------- bounds
MaxGrain == 2
MaxSlope == 32
MaxNeg == 2

Grains == 1..MaxGrain
SlopeValues == (0 - MaxNeg)..MaxSlope

\* ------------------------------------------------------- program constants
None == "None"
Keys == {"MOSAICKED", "RESAMPLED", "SLOPE", "CLASSEDSLOPE", "VECTORSLOPE"}
NoFile == [by |-> "nothing", size |-> 0, cell |-> 0]
EmptyMapping == [k \in {} |-> None]

VARIABLES
    pc,                   \* control position inside slopealg
    parameters,           \* the parameter mapping, fixed at entry
    canceled,             \* feedback's cancellation flag
    cancelAt,             \* control position at which the flag was set
    polls,                \* values returned by feedback.isCanceled(), in order
    progressText,         \* texts passed to feedback.setProgressText, in order
    calls,                \* processing.run invocations, in order
    files,                \* destination path -> artifact stored there
    mosaicked_result,     \* mosaicked_result['TARGET_OUT_GRID']
    resampled_output,
    slope_output,
    classed_slope_output,
    vector_slope_result,  \* vector_slope_result['OUTPUT']
    result,               \* the mapping returned by slopealg
    raisedBy              \* the operation whose exception left slopealg

vars == <<pc, parameters, canceled, cancelAt, polls, progressText, calls,
          files, mosaicked_result, resampled_output, slope_output,
          classed_slope_output, vector_slope_result, result, raisedBy>>

locals == <<mosaicked_result, resampled_output, slope_output,
            classed_slope_output, vector_slope_result>>

Paths == {"dems", "mosaic.sdat", "resampled.sdat", "slope.tif",
          "classed.sdat", "vector.shp"}

\* the decorated inputs of the algorithm: one input set, five destinations,
\* two grains
ParameterSets ==
    { [INPUT |-> "dems", MOSAICKED |-> "mosaic.sdat",
       RESAMPLED |-> "resampled.sdat", SLOPE |-> "slope.tif",
       CLASSEDSLOPE |-> "classed.sdat", VECTORSLOPE |-> "vector.shp",
       ORIGINALGRAIN |-> o, DESIREDGRAIN |-> d] : o \in Grains, d \in Grains }

Init ==
    /\ pc = "call_mosaic"
    /\ parameters \in ParameterSets
    /\ canceled \in BOOLEAN
    /\ cancelAt = IF canceled THEN "before_entry" ELSE "never"
    /\ polls = <<>>
    /\ progressText = <<>>
    /\ calls = <<>>
    /\ files = [p \in Paths |->
                 IF p = parameters.INPUT
                 THEN [by |-> "input", size |-> parameters.ORIGINALGRAIN, cell |-> 0]
                 ELSE NoFile]
    /\ mosaicked_result = None
    /\ resampled_output = None
    /\ slope_output = None
    /\ classed_slope_output = None
    /\ vector_slope_result = None
    /\ result = EmptyMapping
    /\ raisedBy = None

\* ------------------------------------------------------------ the host
Running == pc \notin {"returned", "raised"}

Cancel ==
    /\ Running
    /\ ~canceled
    /\ canceled' = TRUE
    /\ cancelAt' = pc
    /\ UNCHANGED <<pc, parameters, polls, progressText, calls, files,
                   locals, result, raisedBy>>

\* --------------------------------------------------- orchestrator steps
\* processing.run(alg, {...}): the call is entered
Invoke(at, alg, input, size, output, running) ==
    /\ pc = at
    /\ calls' = Append(calls, [alg |-> alg, input |-> input, size |-> size,
                               output |-> output])
    /\ pc' = running
    /\ UNCHANGED <<parameters, canceled, cancelAt, polls, progressText,
                   files, locals, result, raisedBy>>

LastCall == calls[Len(calls)]

\* the external operation raises: the exception leaves slopealg
\* mutation: the exception is caught and the run returns the empty mapping
RaiseSwallowed(running) ==
    /\ pc = running
    /\ raisedBy' = LastCall.alg
    /\ pc' = "returned"
    /\ result' = EmptyMapping
    /\ UNCHANGED <<parameters, canceled, cancelAt, polls, progressText,
                   calls, files, locals>>

Raise(running) ==
    /\ pc = running
    /\ raisedBy' = LastCall.alg
    /\ pc' = "raised"
    /\ UNCHANGED <<parameters, canceled, cancelAt, polls, progressText,
                   calls, files, locals, result>>

\* mutation: the test of the flag is inverted
IsCanceledCheckInverted(at, next) ==
    /\ pc = at
    /\ polls' = Append(polls, canceled)
    /\ IF ~canceled
       THEN pc' = "returned" /\ result' = EmptyMapping
       ELSE pc' = next /\ UNCHANGED result
    /\ UNCHANGED <<parameters, canceled, cancelAt, progressText, calls,
                   files, locals, raisedBy>>

\* mutation: the flag is read but the run goes on
IsCanceledCheckNoReturn(at, next) ==
    /\ pc = at
    /\ polls' = Append(polls, canceled)
    /\ pc' = next
    /\ UNCHANGED <<parameters, canceled, cancelAt, progressText, calls,
                   files, locals, result, raisedBy>>

\* if feedback.isCanceled(): return {}
\* mutation: a canceled run removes what the completed stages wrote
IsCanceledCheckRollback(at, next) ==
    /\ pc = at
    /\ polls' = Append(polls, canceled)
    /\ IF canceled
       THEN /\ pc' = "returned"
            /\ result' = EmptyMapping
            /\ files' = [p \in Paths |->
                            IF p = parameters.INPUT THEN files[p] ELSE NoFile]
       ELSE pc' = next /\ UNCHANGED <<result, files>>
    /\ UNCHANGED <<parameters, canceled, cancelAt, progressText, calls,
                   locals, raisedBy>>

IsCanceledCheck(at, next) ==
    /\ pc = at
    /\ polls' = Append(polls, canceled)
    /\ IF canceled
       THEN pc' = "returned" /\ result' = EmptyMapping
       ELSE pc' = next /\ UNCHANGED result
    /\ UNCHANGED <<parameters, canceled, cancelAt, progressText, calls,
                   files, locals, raisedBy>>

\* feedback.setProgressText(text)
SetProgressText(at, text, next) ==
    /\ pc = at
    /\ progressText' = Append(progressText, text)
    /\ pc' = next
    /\ UNCHANGED <<parameters, canceled, cancelAt, polls, calls, files,
                   locals, result, raisedBy>>

\* the artifact an operation leaves at its output, and what it reports
WriteFile(path, artifact) == [files EXCEPT ![path] = artifact]

\* ---- stage 1: saga:mosaicrasterlayers
CallMosaic ==
    Invoke("call_mosaic", "saga:mosaicrasterlayers", parameters.INPUT,
           parameters.ORIGINALGRAIN, parameters.MOSAICKED, "run_mosaic")

ReturnMosaic ==
    /\ pc = "run_mosaic"
    /\ files' = WriteFile(LastCall.output,
                    [by |-> LastCall.alg, size |-> LastCall.size,
                     cell |-> files[LastCall.input].cell])
    /\ mosaicked_result' = LastCall.output
    /\ pc' = "poll_1"
    /\ UNCHANGED <<parameters, canceled, cancelAt, polls, progressText,
                   calls, resampled_output, slope_output,
                   classed_slope_output, vector_slope_result, result, raisedBy>>

RaiseMosaic == Raise("run_mosaic")

\* mutation: no poll after the mosaic stage
Poll1Missing ==
    /\ pc = "poll_1"
    /\ pc' = "text_1"
    /\ UNCHANGED <<parameters, canceled, cancelAt, polls, progressText,
                   calls, files, locals, result, raisedBy>>

Poll1 == IsCanceledCheck("poll_1", "text_1")

Text1 == SetProgressText("text_1", "Mosaicking finished", "test_grain")

\* ---- stage 2: saga:resampling, only when the grains differ
\* mutation: the resampling is called whatever the grains are
CallResampleAlways ==
    Invoke("test_grain", "saga:resampling", mosaicked_result,
           parameters.DESIREDGRAIN, parameters.RESAMPLED, "run_resample")

\* mutation: the resampling is given the grain of the input
CallResampleOriginalGrain ==
    /\ parameters.ORIGINALGRAIN # parameters.DESIREDGRAIN
    /\ Invoke("test_grain", "saga:resampling", mosaicked_result,
              parameters.ORIGINALGRAIN, parameters.RESAMPLED, "run_resample")

CallResample ==
    /\ parameters.ORIGINALGRAIN # parameters.DESIREDGRAIN
    /\ Invoke("test_grain", "saga:resampling", mosaicked_result,
              parameters.DESIREDGRAIN, parameters.RESAMPLED, "run_resample")

ReturnResample ==
    /\ pc = "run_resample"
    /\ files' = WriteFile(LastCall.output,
                    [by |-> LastCall.alg, size |-> LastCall.size,
                     cell |-> files[LastCall.input].cell])
    /\ resampled_output' = LastCall.output
    /\ pc' = "poll_2"
    /\ UNCHANGED <<parameters, canceled, cancelAt, polls, progressText,
                   calls, mosaicked_result, slope_output,
                   classed_slope_output, vector_slope_result, result, raisedBy>>

RaiseResample == Raise("run_resample")

\* mutation: the declared RESAMPLED destination is forwarded on a skip
SkipResampleDeclared ==
    /\ pc = "test_grain"
    /\ ~(parameters.ORIGINALGRAIN # parameters.DESIREDGRAIN)
    /\ resampled_output' = parameters.RESAMPLED
    /\ pc' = "poll_2"
    /\ UNCHANGED <<parameters, canceled, cancelAt, polls, progressText,
                   calls, files, mosaicked_result, slope_output,
                   classed_slope_output, vector_slope_result, result, raisedBy>>

\* mutation: a skipped resampling also skips its poll and its message
SkipResampleNoPoll ==
    /\ pc = "test_grain"
    /\ ~(parameters.ORIGINALGRAIN # parameters.DESIREDGRAIN)
    /\ resampled_output' = mosaicked_result
    /\ pc' = "call_slope"
    /\ UNCHANGED <<parameters, canceled, cancelAt, polls, progressText,
                   calls, files, mosaicked_result, slope_output,
                   classed_slope_output, vector_slope_result, result, raisedBy>>

SkipResample ==
    /\ pc = "test_grain"
    /\ ~(parameters.ORIGINALGRAIN # parameters.DESIREDGRAIN)
    /\ resampled_output' = mosaicked_result
    /\ pc' = "poll_2"
    /\ UNCHANGED <<parameters, canceled, cancelAt, polls, progressText,
                   calls, files, mosaicked_result, slope_output,
                   classed_slope_output, vector_slope_result, result, raisedBy>>

Poll2 == IsCanceledCheck("poll_2", "text_2")

Text2 == SetProgressText("text_2", "Resampling finished", "call_slope")

\* ---- stage 3: gdal:slope (AS_PERCENT); the slope of a cell is whatever
\* the terrain gives, NoData cells are negative
\* mutation: the slope is computed from the mosaic, not from the resampled
CallSlopeFromMosaic ==
    Invoke("call_slope", "gdal:slope", mosaicked_result,
           0, parameters.SLOPE, "run_slope")

CallSlope ==
    Invoke("call_slope", "gdal:slope", resampled_output,
           0, parameters.SLOPE, "run_slope")

\* mutation: a canceled slope stage is abandoned and the run returns
ReturnSlopeAborted ==
    /\ pc = "run_slope"
    /\ IF canceled
       THEN /\ pc' = "returned"
            /\ result' = EmptyMapping
            /\ UNCHANGED <<files, slope_output>>
       ELSE /\ \E v \in SlopeValues :
                  files' = WriteFile(LastCall.output,
                              [by |-> LastCall.alg,
                               size |-> files[LastCall.input].size,
                               cell |-> v])
            /\ slope_output' = LastCall.output
            /\ pc' = "poll_3"
            /\ UNCHANGED result
    /\ UNCHANGED <<parameters, canceled, cancelAt, polls, progressText,
                   calls, mosaicked_result, resampled_output,
                   classed_slope_output, vector_slope_result, raisedBy>>

ReturnSlope ==
    /\ pc = "run_slope"
    /\ \E v \in SlopeValues :
          files' = WriteFile(LastCall.output,
                      [by |-> LastCall.alg, size |-> files[LastCall.input].size,
                       cell |-> v])
    /\ slope_output' = LastCall.output
    /\ pc' = "poll_3"
    /\ UNCHANGED <<parameters, canceled, cancelAt, polls, progressText,
                   calls, mosaicked_result, resampled_output,
                   classed_slope_output, vector_slope_result, result, raisedBy>>

RaiseSlope == Raise("run_slope")

Poll3 == IsCanceledCheck("poll_3", "text_3")

\* mutation: the text of the next stage is emitted after the slope stage
Text3Copied == SetProgressText("text_3", "Slope classified", "call_classify")

Text3 == SetProgressText("text_3", "Slope calculated", "call_classify")

\* ---- stage 4: saga:rastercalculator with the classification FORMULA
\* the functions of the raster calculator's formula language
gt(x, y) == IF x > y THEN 1 ELSE 0
eq(x, y) == IF x = y THEN 1 ELSE 0
or(x, y) == IF x # 0 \/ y # 0 THEN 1 ELSE 0

\* mutation: the last threshold is tested with gt only
FORMULAStrict(a) ==
    or(gt(a, 0), eq(a, 0)) +
    or(gt(a, 5), eq(a, 5)) +
    or(gt(a, 10), eq(a, 10)) +
    or(gt(a, 15), eq(a, 15)) +
    or(gt(a, 20), eq(a, 20)) +
    gt(a, 30)

\* mutation: the first threshold is tested with gt only
FORMULAZeroStrict(a) ==
    gt(a, 0) +
    or(gt(a, 5), eq(a, 5)) +
    or(gt(a, 10), eq(a, 10)) +
    or(gt(a, 15), eq(a, 15)) +
    or(gt(a, 20), eq(a, 20)) +
    or(gt(a, 30), eq(a, 30))

FORMULA(a) ==
    or(gt(a, 0), eq(a, 0)) +
    or(gt(a, 5), eq(a, 5)) +
    or(gt(a, 10), eq(a, 10)) +
    or(gt(a, 15), eq(a, 15)) +
    or(gt(a, 20), eq(a, 20)) +
    or(gt(a, 30), eq(a, 30))

\* mutation: the classification reads the raster the slope was computed from
CallClassifyFromResampled ==
    Invoke("call_classify", "saga:rastercalculator", resampled_output,
           0, parameters.CLASSEDSLOPE, "run_classify")

CallClassify ==
    Invoke("call_classify", "saga:rastercalculator", slope_output,
           0, parameters.CLASSEDSLOPE, "run_classify")

ReturnClassify ==
    /\ pc = "run_classify"
    /\ files' = WriteFile(LastCall.output,
                    [by |-> LastCall.alg, size |-> files[LastCall.input].size,
                     cell |-> FORMULA(files[LastCall.input].cell)])
    /\ classed_slope_output' = LastCall.output
    /\ pc' = "poll_4"
    /\ UNCHANGED <<parameters, canceled, cancelAt, polls, progressText,
                   calls, mosaicked_result, resampled_output, slope_output,
                   vector_slope_result, result, raisedBy>>

RaiseClassify == Raise("run_classify")

Poll4 == IsCanceledCheck("poll_4", "text_4")

Text4 == SetProgressText("text_4", "Slope classified", "call_vectorize")

\* ---- stage 5: gdal:polygonize, FIELD 'class'
CallVectorize ==
    Invoke("call_vectorize", "gdal:polygonize", classed_slope_output,
           0, parameters.VECTORSLOPE, "run_vectorize")

\* mutation: the orchestrator gives up on a running polygonization
ReturnVectorizeTimeout ==
    /\ pc = "run_vectorize"
    /\ \/ /\ files' = WriteFile(LastCall.output,
                         [by |-> LastCall.alg,
                          size |-> files[LastCall.input].size,
                          cell |-> files[LastCall.input].cell])
          /\ vector_slope_result' = LastCall.output
          /\ pc' = "poll_5"
          /\ UNCHANGED result
       \/ /\ pc' = "returned"
          /\ result' = EmptyMapping
          /\ UNCHANGED <<files, vector_slope_result>>
    /\ UNCHANGED <<parameters, canceled, cancelAt, polls, progressText,
                   calls, mosaicked_result, resampled_output, slope_output,
                   classed_slope_output, raisedBy>>

ReturnVectorize ==
    /\ pc = "run_vectorize"
    /\ files' = WriteFile(LastCall.output,
                    [by |-> LastCall.alg, size |-> files[LastCall.input].size,
                     cell |-> files[LastCall.input].cell])
    /\ vector_slope_result' = LastCall.output
    /\ pc' = "poll_5"
    /\ UNCHANGED <<parameters, canceled, cancelAt, polls, progressText,
                   calls, mosaicked_result, resampled_output, slope_output,
                   classed_slope_output, result, raisedBy>>

RaiseVectorize == Raise("run_vectorize")

Poll5 == IsCanceledCheck("poll_5", "text_5")

Text5 == SetProgressText("text_5", "Slope vectorized", "return_results")

\* ---- return results
\* mutation: the last key is missing from the returned mapping
ResultMappingPartial ==
    [k \in Keys \ {"VECTORSLOPE"} |->
        CASE k = "MOSAICKED" -> mosaicked_result
          [] k = "RESAMPLED" -> resampled_output
          [] k = "SLOPE" -> slope_output
          [] k = "CLASSEDSLOPE" -> classed_slope_output]

ResultMapping ==
    [k \in Keys |->
        CASE k = "MOSAICKED" -> mosaicked_result
          [] k = "RESAMPLED" -> resampled_output
          [] k = "SLOPE" -> slope_output
          [] k = "CLASSEDSLOPE" -> classed_slope_output
          [] k = "VECTORSLOPE" -> vector_slope_result]

ReturnResults ==
    /\ pc = "return_results"
    /\ result' = ResultMapping
    /\ pc' = "returned"
    /\ UNCHANGED <<parameters, canceled, cancelAt, polls, progressText,
                   calls, files, locals, raisedBy>>

\* ======================================================================
\* Properties
\* ======================================================================
\* the operation of each of the five stage positions, and the local that
\* holds the artifact forwarded from that position
StageAlg == <<"saga:mosaicrasterlayers", "saga:resampling", "gdal:slope",
              "saga:rastercalculator", "gdal:polygonize">>
StageOutput(k) ==
    CASE k = 1 -> mosaicked_result
      [] k = 2 -> resampled_output
      [] k = 3 -> slope_output
      [] k = 4 -> classed_slope_output
      [] k = 5 -> vector_slope_result
PollAt == <<"poll_1", "poll_2", "poll_3", "poll_4", "poll_5">>
RunAt == <<"run_mosaic", "run_resample", "run_slope", "run_classify",
           "run_vectorize">>
Messages == <<"Mosaicking finished", "Resampling finished",
              "Slope calculated", "Slope classified", "Slope vectorized">>

Invoked(k) == Cardinality({i \in 1..Len(calls) : calls[i].alg = StageAlg[k]})
CallOf(k) == calls[CHOOSE i \in 1..Len(calls) : calls[i].alg = StageAlg[k]]
StageDone(k) == StageOutput(k) # None
Produced(k) == StageDone(k) /\ files[StageOutput(k)] # NoFile
SomePollTrue == \E i \in 1..Len(polls) : polls[i]
ReturnedEmpty == pc = "returned" /\ DOMAIN result = {}
ReturnedFull == pc = "returned" /\ DOMAIN result = Keys
GrainsEqual == parameters.ORIGINALGRAIN = parameters.DESIREDGRAIN

\* control positions after stage k has completed and before stage k+1 starts
Between(k) ==
    CASE k = 1 -> {"poll_1", "text_1", "test_grain"}
      [] k = 2 -> {"poll_2", "text_2", "call_slope"}
      [] k = 3 -> {"poll_3", "text_3", "call_classify"}
      [] k = 4 -> {"poll_4", "text_4", "call_vectorize"}

\* C1 as stated: for k in 1..4, a cancellation signaled anywhere between the
\* completion of stage k and the start of stage k+1 leaves stages 1..k with
\* their artifacts, stage k+1 never invoked and the empty mapping as result.
C1_AsStated ==
    \A k \in 1..4 :
        cancelAt \in Between(k) =>
            /\ \A j \in 1..k : Produced(j)
            /\ Invoked(k + 1) = 0
            /\ pc = "returned" => DOMAIN result = {}

\* the part of Between(k) in which no stage is invoked before the next poll:
\* before the poll that follows stage k and, for k = 1 with equal grains
\* (resampling skipped), up to the poll of position 2
BeforeNextPoll(k) ==
    {PollAt[k]} \cup
        (IF k = 1 /\ GrainsEqual THEN {"text_1", "test_grain"} ELSE {})

\* C1 (amended): for k in 1..4, a cancellation signaled after stage k has
\* completed and before the next cancellation poll, with no stage invoked in
\* between, leaves stages 1..k with their artifacts, no stage after k ever
\* invoked, and the run can only end by returning the empty mapping at that
\* poll.
C1_CancelBetweenStages ==
    \A k \in 1..4 :
        cancelAt \in BeforeNextPoll(k) =>
            /\ \A j \in 1..k : Produced(j)
            /\ \A j \in (k + 1)..5 : Invoked(j) = 0
            /\ pc # "raised"
            /\ pc = "returned" =>
                  /\ DOMAIN result = {}
                  /\ polls[Len(polls)]
                  /\ Len(polls) \in {k, k + 1}

C1_Witness ==
    /\ cancelAt = "poll_3"
    /\ ReturnedEmpty
    /\ Produced(3)

\* C2 as stated: with the flag already set at entry, nothing is invoked and
\* nothing is written.
C2_AsStated ==
    cancelAt = "before_entry" =>
        /\ calls = <<>>
        /\ \A p \in Paths \ {parameters.INPUT} : files[p] = NoFile
        /\ pc = "returned" => DOMAIN result = {}

\* C2 (amended): with the flag already set at entry, the mosaic stage is
\* still invoked (once) and, when it returns, has written the mosaic
\* artifact; the first poll then returns the empty mapping, so no other
\* stage is invoked and no other artifact is written.
C2_CancelBeforeStart ==
    cancelAt = "before_entry" =>
        /\ pc \in {"call_mosaic", "run_mosaic", "poll_1", "returned", "raised"}
        /\ pc # "call_mosaic" => calls = <<CallOf(1)>>
        /\ \A p \in Paths \ {parameters.INPUT, parameters.MOSAICKED} :
              files[p] = NoFile
        /\ pc \in {"poll_1", "returned"} => Produced(1)
        /\ pc = "returned" => DOMAIN result = {} /\ polls = <<TRUE>>
        /\ progressText = <<>>

C2_Witness ==
    /\ cancelAt = "before_entry"
    /\ ReturnedEmpty
    /\ files[parameters.MOSAICKED] # NoFile

\* number of stage positions completed so far
Completed == Cardinality({k \in 1..5 : StageDone(k)})

\* what the history of polls looks like in every state
C3_PollState ==
    /\ Len(polls) <= 5
    /\ Len(polls) \in {Completed, Completed - 1}
    /\ \A k \in 1..5 : pc = PollAt[k] => Completed = k /\ Len(polls) = k - 1
    /\ \A i \in 1..Len(polls) : polls[i] => i = Len(polls)
    /\ SomePollTrue =>
          /\ ReturnedEmpty
          /\ Len(progressText) = Len(polls) - 1
          /\ Completed = Len(polls)
          /\ Len(calls) <= Len(polls)
    /\ pc = "returned" => (DOMAIN result = {} <=> SomePollTrue)

\* C3: the flag is polled once after each completed stage position; the
\* first poll that returns true ends the run with the empty mapping, and
\* nothing (stage, poll, message) happens after it; the result is empty iff
\* some poll returned true.
C3_PollAfterEachStage ==
    /\ []C3_PollState
    /\ [][pc = "returned" =>
            UNCHANGED <<pc, polls, progressText, calls, files, result>>]_vars

C3_Witness ==
    /\ ReturnedEmpty
    /\ polls = <<FALSE, FALSE, FALSE, TRUE>>


\* C4: with ORIGINALGRAIN = DESIREDGRAIN the resampling operation is never
\* invoked, nothing is written to the RESAMPLED destination, the slope stage
\* is given the mosaic output, and a full result holds the mosaic output
\* under both RESAMPLED and MOSAICKED.
C4_EqualGrainsSkipResample ==
    GrainsEqual =>
        /\ Invoked(2) = 0
        /\ pc # "run_resample"
        /\ files[parameters.RESAMPLED] = NoFile
        /\ Invoked(3) > 0 =>
              /\ CallOf(3).input = CallOf(1).output
              /\ files[CallOf(3).input].by = StageAlg[1]
        /\ ReturnedFull =>
              /\ result["RESAMPLED"] = result["MOSAICKED"]
              /\ result["MOSAICKED"] = CallOf(1).output

C4_Witness ==
    /\ GrainsEqual
    /\ ReturnedFull
    /\ Invoked(3) = 1

\* the run got past the first poll with the answer "not canceled" and past
\* the test of the grains
PastGrainTest ==
    /\ Len(polls) >= 1
    /\ ~polls[1]
    /\ pc \notin {"text_1", "test_grain"}

\* C5: with ORIGINALGRAIN # DESIREDGRAIN and the first poll false, the
\* resampling operation is invoked exactly once, on the mosaic output, with
\* DESIREDGRAIN as cell size and the RESAMPLED destination as output; its
\* artifact is not the mosaic artifact, is what the slope stage is given and
\* is what a full result holds under RESAMPLED.
C5_UnequalGrainsResample ==
    ~GrainsEqual =>
        /\ Invoked(2) <= 1
        /\ PastGrainTest =>
              /\ Invoked(2) = 1
              /\ calls[2] = [alg |-> StageAlg[2],
                             input |-> CallOf(1).output,
                             size |-> parameters.DESIREDGRAIN,
                             output |-> parameters.RESAMPLED]
        /\ StageDone(2) =>
              /\ resampled_output = CallOf(2).output
              /\ resampled_output # mosaicked_result
              /\ files[resampled_output].by = StageAlg[2]
              /\ files[resampled_output].size = parameters.DESIREDGRAIN
              /\ files[resampled_output] # files[mosaicked_result]
        /\ Invoked(3) > 0 => CallOf(3).input = CallOf(2).output
        /\ ReturnedFull => result["RESAMPLED"] = CallOf(2).output

C5_Witness ==
    /\ ~GrainsEqual
    /\ ReturnedFull
    /\ files[result["RESAMPLED"]].size = parameters.DESIREDGRAIN

\* the states that follow a cancellation requested while stage k was running
C6_State ==
    \A k \in 1..5 :
        (cancelAt = RunAt[k] /\ pc \notin {RunAt[k], "raised"}) =>
            /\ Produced(k)
            /\ \A j \in (k + 1)..5 : Invoked(j) = 0
            /\ pc \in {PollAt[k], "returned"}
            /\ pc = PollAt[k] => Len(polls) = k - 1
            /\ pc = "returned" =>
                  /\ DOMAIN result = {}
                  /\ Len(polls) = k
                  /\ polls[k]

\* C6: a cancellation requested while stage k is running does not stop the
\* stage: when the operation returns its artifact is written, no poll is
\* made while it runs, and the request is seen by the poll after stage k,
\* which returns the empty mapping before any later stage is invoked.
C6_CancelDuringStage ==
    /\ []C6_State
    /\ [][\A k \in 1..5 :
            pc = RunAt[k] =>
                /\ pc' \in {RunAt[k], PollAt[k], "raised"}
                /\ polls' = polls
                /\ pc' = PollAt[k] => files'[CallOf(k).output] # NoFile]_vars

C6_Witness ==
    /\ cancelAt = "run_slope"
    /\ ReturnedEmpty
    /\ files[parameters.SLOPE] # NoFile
    /\ polls = <<FALSE, FALSE, TRUE>>


AllPollsFalse == Len(polls) = 5 /\ \A i \in 1..5 : ~polls[i]

\* C7: slopealg returns the full mapping exactly when nothing raised and all
\* five polls returned false; the mapping has exactly the five keys, each
\* bound to the output its own stage reported (RESAMPLED to the resample
\* output, or to the forwarded mosaic output); no returned mapping holds only
\* some of the keys.
C7_FullResult ==
    /\ pc = "returned" =>
          /\ DOMAIN result = Keys \/ DOMAIN result = {}
          /\ DOMAIN result = Keys <=> AllPollsFalse
          /\ raisedBy = None
    /\ pc = "raised" => ~AllPollsFalse
    /\ ReturnedFull =>
          /\ \A k \in {1, 3, 4, 5} : Invoked(k) = 1
          /\ result["MOSAICKED"] = CallOf(1).output
          /\ result["RESAMPLED"] =
                IF GrainsEqual THEN CallOf(1).output ELSE CallOf(2).output
          /\ result["SLOPE"] = CallOf(3).output
          /\ result["CLASSEDSLOPE"] = CallOf(4).output
          /\ result["VECTORSLOPE"] = CallOf(5).output
          /\ \A k \in Keys : files[result[k]] # NoFile

C7_Witness ==
    /\ ReturnedFull
    /\ AllPollsFalse
    /\ result["VECTORSLOPE"] = parameters.VECTORSLOPE

\* the state in which an exception leaves the run
C8_State ==
    /\ \A k \in 1..5 : Invoked(k) <= 1
    /\ pc = "raised" <=> raisedBy # None
    /\ raisedBy # None =>
          /\ LastCall.alg = raisedBy
          /\ \A k \in 1..5 :
                raisedBy = StageAlg[k] =>
                    /\ ~StageDone(k)
                    /\ \A j \in (k + 1)..5 : Invoked(j) = 0 /\ ~StageDone(j)
                    /\ Len(polls) = Len(progressText)
                    /\ Len(polls) = k - 1
          /\ ~SomePollTrue

\* C8: when the operation of stage k raises, slopealg ends there: no later
\* stage is invoked, no poll and no message follows, nothing is returned;
\* and no stage is ever invoked twice.
C8_FailurePropagates ==
    /\ []C8_State
    /\ [][pc = "raised" =>
            UNCHANGED <<pc, polls, progressText, calls, files, result>>]_vars

C8_Witness ==
    /\ pc = "raised"
    /\ raisedBy = "saga:rastercalculator"
    /\ Len(calls) = 4

NumFalsePolls == Cardinality({i \in 1..Len(polls) : ~polls[i]})

\* C9: the emitted messages are a prefix of the five progress texts in
\* order; message k is emitted only after stage position k completed and
\* its poll returned false, and before stage k+1 is invoked; a full result
\* comes with all five, each once.
C9_ProgressMessages ==
    /\ Len(progressText) <= 5
    /\ progressText = SubSeq(Messages, 1, Len(progressText))
    /\ Len(progressText) \in {NumFalsePolls, NumFalsePolls - 1}
    /\ \A k \in 1..Len(progressText) :
          /\ StageDone(k)
          /\ Len(polls) >= k
          /\ ~polls[k]
    /\ \A k \in 2..5 : Invoked(k) > 0 => Len(progressText) >= k - 1
    /\ ReturnedFull => progressText = Messages

C9_Witness ==
    /\ ReturnedFull
    /\ Len(progressText) = 5
    /\ progressText[5] = "Slope vectorized"

Thresholds == {0, 5, 10, 15, 20, 30}
PassedThresholds(v) == Cardinality({t \in Thresholds : v >= t})

\* C10: for every slope cell value v the classification formula yields the
\* number of thresholds in {0, 5, 10, 15, 20, 30} that v reaches, a class in
\* 0..6; a cell of value 12 is given class 3.
C10_ClassificationFormula ==
    /\ \A v \in SlopeValues :
          /\ FORMULA(v) = PassedThresholds(v)
          /\ FORMULA(v) \in 0..6
    /\ FORMULA(12) = 3
    /\ StageDone(4) =>
          /\ files[classed_slope_output].cell =
                PassedThresholds(files[slope_output].cell)
          /\ files[slope_output].cell = 12 =>
                files[classed_slope_output].cell = 3

C10_Witness ==
    /\ StageDone(4)
    /\ files[slope_output].cell = 12
    /\ files[classed_slope_output].cell = 3


\* the operation that wrote the artifact forwarded from stage position k
ProducerOf(k) == IF k = 2 /\ GrainsEqual THEN StageAlg[1] ELSE StageAlg[k]

\* every artifact forwarded so far is present and is its producer's
ArtifactsPresent ==
    \A k \in 1..5 :
        StageDone(k) =>
            /\ files[StageOutput(k)] # NoFile
            /\ files[StageOutput(k)].by = ProducerOf(k)

\* C11: an artifact, once written, is never deleted or modified by a later
\* step: after a cancellation or a failure behind stage k the artifacts of
\* stages 1..k are present as written (no rollback), and on a successful run
\* every artifact is unchanged from its creation to the return.
C11_ArtifactsKept ==
    /\ []ArtifactsPresent
    /\ [][\A p \in Paths : files[p] # NoFile => files'[p] = files[p]]_vars

C11_Witness ==
    /\ ReturnedEmpty
    /\ polls = <<FALSE, FALSE, TRUE>>
    /\ \A k \in 1..3 : files[StageOutput(k)].by = ProducerOf(k)
    /\ files[parameters.CLASSEDSLOPE] = NoFile

StageIndex(alg) == CHOOSE k \in 1..5 : StageAlg[k] = alg

\* the stage positions that invoke an operation, in the order of the code
InvocationOrder ==
    IF GrainsEqual THEN <<1, 3, 4, 5>> ELSE <<1, 2, 3, 4, 5>>

\* the invocations made so far, their inputs and their completion
SequentialState ==
    /\ Len(calls) <= Len(InvocationOrder)
    /\ \A i \in 1..Len(calls) :
          /\ calls[i].alg = StageAlg[InvocationOrder[i]]
          /\ calls[i].input \in Paths
          /\ files[calls[i].input] # NoFile
          /\ calls[i].input =
                (IF i = 1 THEN parameters.INPUT ELSE calls[i - 1].output)
          /\ i < Len(calls) => Produced(StageIndex(calls[i].alg))
    /\ Invoked(2) > 0 => ~GrainsEqual
    /\ \A k \in 1..5 :
          pc = RunAt[k] <=>
              /\ calls # <<>>
              /\ LastCall.alg = StageAlg[k]
              /\ ~StageDone(k)
              /\ raisedBy = None

\* C12: the stages are invoked in the order mosaic, resample (only when the
\* grains differ), slope, classify, vectorize; at most one is running, each
\* has run to completion before the next is invoked, and a stage is invoked
\* only when its input artifact has been produced by its upstream stage.
C12_SequentialStages ==
    /\ []SequentialState
    /\ [][calls' # calls =>
            /\ pc \notin {RunAt[k] : k \in 1..5}
            /\ Len(calls') = Len(calls) + 1
            /\ files[calls'[Len(calls')].input] # NoFile]_vars

C12_Witness ==
    /\ pc = "run_vectorize"
    /\ Len(calls) = 5
    /\ files[LastCall.input].by = StageAlg[4]

\* the stage positions whose operation was given the artifact at path p
Consumers(p) ==
    {StageIndex(calls[i].alg) : i \in {j \in 1..Len(calls) : calls[j].input = p}}
TimesConsumed(p) == Cardinality({i \in 1..Len(calls) : calls[i].input = p})

\* C13: no artifact is consumed by more than one stage, and each stage's
\* output is the input of exactly one downstream stage: the input set of
\* mosaic only, the mosaic output of resample or (resample skipped) of slope
\* but never both, the resample output of slope only, the slope output of
\* classify only, the classified output of vectorize only.
C13_SingleConsumer ==
    /\ \A p \in Paths : TimesConsumed(p) <= 1
    /\ Consumers(parameters.INPUT) \subseteq {1}
    /\ calls # <<>> => Consumers(parameters.INPUT) = {1}
    /\ Consumers(parameters.MOSAICKED) \subseteq
          (IF GrainsEqual THEN {3} ELSE {2})
    /\ Consumers(parameters.RESAMPLED) \subseteq {3}
    /\ Consumers(parameters.SLOPE) \subseteq {4}
    /\ Consumers(parameters.CLASSEDSLOPE) \subseteq {5}
    /\ Consumers(parameters.VECTORSLOPE) = {}
    /\ \A i \in 1..Len(calls) :
          Consumers(calls[i].output) =
              (IF i < Len(calls) THEN {StageIndex(calls[i + 1].alg)} ELSE {})
    /\ ReturnedFull =>
          \A k \in 1..4 : StageDone(k) => TimesConsumed(StageOutput(k)) = 1

C13_Witness ==
    /\ ReturnedFull
    /\ GrainsEqual
    /\ Consumers(parameters.MOSAICKED) = {3}
    /\ Consumers(parameters.SLOPE) = {4}

Terminated == pc \in {"returned", "raised"}

\* what a run has done at most, and how it can have ended
BoundedRun ==
    /\ Len(calls) <= 5
    /\ Len(polls) <= 5
    /\ Len(calls) <= Len(polls) + 1
    /\ Terminated =>
          /\ Cardinality({o \in {"full", "empty", "raised"} :
                \/ o = "full" /\ ReturnedFull
                \/ o = "empty" /\ ReturnedEmpty
                \/ o = "raised" /\ pc = "raised"}) = 1
          /\ \A i \in 1..Len(calls) :
                \/ Produced(StageIndex(calls[i].alg))
                \/ i = Len(calls) /\ raisedBy = calls[i].alg

\* C14: provided every invoked operation returns or raises, every run ends,
\* after at most five invocations and five polls, in exactly one of: the
\* full mapping, the empty mapping, a propagated exception; while an invoked
\* operation has not returned the run stays in that call, and if it never
\* returns the run never ends and never polls again.
C14_Termination ==
    /\ (\A k \in 1..5 : []<>(pc # RunAt[k])) => <>Terminated
    /\ \A k \in 1..5 :
          <>[](pc = RunAt[k]) => [](~Terminated /\ Len(polls) <= k - 1)
    /\ []BoundedRun
    /\ [][\A k \in 1..5 :
            pc = RunAt[k] =>
                \/ /\ pc' = pc
                   /\ UNCHANGED <<polls, progressText, calls, files, result>>
                \/ pc' = PollAt[k] /\ files'[CallOf(k).output] # NoFile
                \/ pc' = "raised" /\ raisedBy' = StageAlg[k]]_vars
    /\ [][Terminated => UNCHANGED vars]_vars

C14_Witness ==
    /\ ReturnedFull
    /\ Len(calls) = 5
    /\ Len(polls) = 5

\* the positions around the skipped resampling, with equal grains
C15_State ==
    GrainsEqual =>
        /\ pc \in {"text_1", "test_grain", "poll_2", "text_2", "call_slope"}
              => calls = <<CallOf(1)>>
        /\ pc = "poll_2" => polls = <<FALSE>> /\ Len(calls) = 1
        /\ pc = "text_2" => polls = <<FALSE, FALSE>> /\ Len(calls) = 1
        /\ (Len(polls) >= 2 /\ ~polls[1] /\ ~polls[2] /\ pc # "text_2") =>
              /\ Len(progressText) >= 2
              /\ progressText[2] = "Resampling finished"
              /\ Invoked(2) = 0
              /\ files[parameters.RESAMPLED] = NoFile

\* C15: with equal grains the poll and the message of the resample position
\* do not wait for a resampling: once the first two polls returned false,
\* 'Resampling finished' has been emitted with the resampling never invoked,
\* and no operation is invoked between the first poll and the second.
C15_ResamplingFinishedOnSkip ==
    /\ []C15_State
    /\ [][(GrainsEqual /\ Len(polls) = 1 /\ Len(polls') = 2) =>
            /\ calls = <<CallOf(1)>>
            /\ calls' = calls]_vars

C15_Witness ==
    /\ GrainsEqual
    /\ pc = "call_slope"
    /\ progressText = <<"Mosaicking finished", "Resampling finished">>
    /\ calls = <<CallOf(1)>>

\* C16: the mosaic and the resampling producing rasters of the cell size
\* they are given, the raster handed to the slope stage has cell size
\* DESIREDGRAIN whenever the slope stage is invoked, resampled or not.
C16_SlopeInputGrain ==
    Invoked(3) > 0 =>
        /\ files[CallOf(3).input] # NoFile
        /\ files[CallOf(3).input].size = parameters.DESIREDGRAIN
        /\ StageDone(3) => files[slope_output].size = parameters.DESIREDGRAIN

C16_Witness ==
    /\ ~GrainsEqual
    /\ pc = "run_slope"
    /\ files[LastCall.input].size = parameters.DESIREDGRAIN
    /\ files[parameters.MOSAICKED].size = parameters.ORIGINALGRAIN

\* C17: the class code is non-decreasing in the slope value; every value
\* >= 0 has a class in 1..6, class 0 is given to negative values only, and
\* class 6 exactly to the values >= 30.
C17_ClassMonotone ==
    /\ \A v, w \in SlopeValues : v <= w => FORMULA(v) <= FORMULA(w)
    /\ \A v \in SlopeValues :
          /\ v >= 0 => FORMULA(v) \in 1..6
          /\ FORMULA(v) = 0 => v < 0
          /\ FORMULA(v) = 6 <=> v >= 30
    /\ StageDone(4) =>
          /\ files[slope_output].cell >= 0 =>
                files[classed_slope_output].cell \in 1..6
          /\ files[classed_slope_output].cell = 0 =>
                files[slope_output].cell < 0
          /\ files[classed_slope_output].cell = 6 <=>
                files[slope_output].cell >= 30

C17_Witness ==
    /\ StageDone(4)
    /\ files[slope_output].cell = 30
    /\ files[classed_slope_output].cell = 6

Next ==
    \/ Cancel
    \/ CallMosaic \/ ReturnMosaic \/ RaiseMosaic \/ Poll1 \/ Text1
    \/ CallResample \/ ReturnResample \/ RaiseResample \/ SkipResample
    \/ Poll2 \/ Text2
    \/ CallSlope \/ ReturnSlope \/ RaiseSlope \/ Poll3 \/ Text3
    \/ CallClassify \/ ReturnClassify \/ RaiseClassify \/ Poll4 \/ Text4
    \/ CallVectorize \/ ReturnVectorize \/ RaiseVectorize \/ Poll5 \/ Text5
    \/ ReturnResults

\* the steps slopealg takes by itself, between the calls of the operations
OrchestratorStep ==
    \/ CallMosaic \/ Poll1 \/ Text1
    \/ CallResample \/ SkipResample \/ Poll2 \/ Text2
    \/ CallSlope \/ Poll3 \/ Text3
    \/ CallClassify \/ Poll4 \/ Text4
    \/ CallVectorize \/ Poll5 \/ Text5
    \/ ReturnResults

Spec == Init /\ [][Next]_vars

\* the interpreter keeps executing slopealg; whether an operation ever
\* returns is left open
LiveSpec == Spec /\ WF_vars(OrchestratorStep)
====
